---- MODULE Spec2Model ----
(***************************************************************************)
(* Model of src/app.py: the Gmail action tools, the sidebar session state  *)
(* (refresh / select) and the "process" button handler that runs the agent *)
(* and extracts the final report from the returned events.                 *)
(***************************************************************************)
EXTENDS Integers, Sequences, FiniteSets, TLC

(* ------------------------------ bounds --------------------------------- *)
MaxDrafts == 2      \* drafts created before draft_email is no longer offered
MaxEvents == 2      \* length of an event sequence returned by the engine
MaxText == 2        \* length of a message text, in characters

(* --------------------------- program constants ------------------------- *)
MaxResults == 10    \* fetch_inbox(max_results=10)

(* ----------------------------- value sets ------------------------------ *)
NoneVal == "<None>"                      \* Python None passed as an argument
MsgOrder == <<"m1", "m2">>               \* mailbox messages, newest first
MsgIds == {MsgOrder[i] : i \in 1..Len(MsgOrder)}
EmailIdArgs == MsgIds \cup {"", NoneVal, "m9"}   \* "m9": no such message
BodyArgs == {"reply text", NoneVal}
LabelIds == {"INBOX", "UNREAD", "TRASH"}
Subject == [m \in MsgIds |-> "Hello"]                       \* header Subject
Sender == [m \in MsgIds |-> IF m = "m1" THEN "a@x.com" ELSE "b@y.org"]

\* Characters of a message text: a blank, an ordinary character, and the two
\* prefixes the handler looks for, each taken as one unit.
Chars == {" ", "a", "tool_code:", "print("}
RECURSIVE SeqsUpTo(_, _)
SeqsUpTo(S, n) ==
    IF n = 0 THEN {<<>>}
    ELSE LET shorter == SeqsUpTo(S, n - 1)
         IN shorter \cup {Append(s, c) : s \in {t \in shorter : Len(t) = n - 1}, c \in S}
Texts == SeqsUpTo(Chars, MaxText)

(* ------------------------- Python string helpers ----------------------- *)
\* bool(email_id): None and the empty string are falsy
Truthy(v) == v \notin {NoneVal, ""}

RECURSIVE LStrip(_)
LStrip(s) == IF s # <<>> /\ Head(s) = " " THEN LStrip(Tail(s)) ELSE s
RECURSIVE RStrip(_)
RStrip(s) == IF s # <<>> /\ s[Len(s)] = " " THEN RStrip(SubSeq(s, 1, Len(s) - 1)) ELSE s
\* str.strip()
Strip(s) == RStrip(LStrip(s))
\* str.startswith(prefix), prefix being one unit
StartsWith(s, prefix) == s # <<>> /\ Head(s) = prefix

(* ----------------------------- Gmail gateway --------------------------- *)
\* service.users().messages().modify(...).execute(): relabels one existing
\* message, or raises (gw = "fail", or no message with that id).
GatewayModify(lbls, id, add, remove, gw) ==
    IF gw = "ok" /\ id \in DOMAIN lbls
    THEN [ok |-> TRUE, labels |-> [lbls EXCEPT ![id] = (@ \ remove) \cup add]]
    ELSE [ok |-> FALSE, labels |-> lbls]

\* service.users().messages().delete(...): permanent erasure (not used by app.py)
GatewayErase(lbls, id, gw) ==
    IF gw = "ok" /\ id \in DOMAIN lbls
    THEN [ok |-> TRUE, labels |-> [m \in DOMAIN lbls \ {id} |-> lbls[m]]]
    ELSE [ok |-> FALSE, labels |-> lbls]

\* service.users().drafts().create(...).execute(); building the MIME message
\* raises for a body that is not a string
GatewayCreateDraft(dr, body, gw) ==
    IF body = NoneVal THEN [ok |-> FALSE, called |-> FALSE, drafts |-> dr]
    ELSE IF gw = "ok" THEN [ok |-> TRUE, called |-> TRUE, drafts |-> dr + 1]
    ELSE [ok |-> FALSE, called |-> TRUE, drafts |-> dr]

\* service.users().messages().list(labelIds=[INBOX, UNREAD], maxResults=n)
\* followed by the per-message metadata get; [] on any failure
fetch_inbox(lbls, gw) ==
    IF gw = "ok"
    THEN LET hits == SelectSeq(MsgOrder, LAMBDA m :
                        m \in DOMAIN lbls /\ {"INBOX", "UNREAD"} \subseteq lbls[m]
                        /\ "TRASH" \notin lbls[m])
             page == SubSeq(hits, 1, IF Len(hits) < MaxResults THEN Len(hits) ELSE MaxResults)
         IN [i \in 1..Len(page) |->
                [id |-> page[i], subject |-> Subject[page[i]], sender |-> Sender[page[i]]]]
    ELSE <<>>

(* -------------------------------- tools -------------------------------- *)
\* Outcome of one tool call: the returned dict (status, message), whether an
\* exception left the function, whether the gateway was called and failed,
\* and the mailbox after the call.
Outcome(status, message, raised, called, failed, lbls, dr) ==
    [status |-> status, message |-> message, raised |-> raised,
     gatewayCalled |-> called, gatewayFailed |-> failed, labels |-> lbls, drafts |-> dr]

draft_email(recipient, subject, body, gw, lbls, dr) ==
    LET g == GatewayCreateDraft(dr, body, gw)
    IN IF g.ok
       THEN Outcome("success", <<"Real draft created! ID:", "draft">>, FALSE, TRUE, FALSE, lbls, g.drafts)
       ELSE Outcome("error", <<"str(e)">>, FALSE, g.called, g.called, lbls, g.drafts)

\* archive_email_by_id without its try/except
archive_email_by_id_uncaught(email_id, gw, lbls, dr) ==
    IF ~Truthy(email_id)
    THEN Outcome("error", <<"Email ID not provided for archiving.">>, FALSE, FALSE, FALSE, lbls, dr)
    ELSE LET g == GatewayModify(lbls, email_id, {}, {"INBOX"}, gw)
         IN IF g.ok
            THEN Outcome("success", <<"Email", email_id, "has been really archived.">>,
                         FALSE, TRUE, FALSE, g.labels, dr)
            ELSE Outcome("none", <<>>, TRUE, TRUE, TRUE, g.labels, dr)

\* archive_email_by_id toggling the INBOX label instead of removing it
archive_email_by_id_toggle(email_id, gw, lbls, dr) ==
    IF ~Truthy(email_id)
    THEN Outcome("error", <<"Email ID not provided for archiving.">>, FALSE, FALSE, FALSE, lbls, dr)
    ELSE LET g == IF email_id \in DOMAIN lbls /\ "INBOX" \notin lbls[email_id]
                  THEN GatewayModify(lbls, email_id, {"INBOX"}, {}, gw)
                  ELSE GatewayModify(lbls, email_id, {}, {"INBOX"}, gw)
         IN IF g.ok
            THEN Outcome("success", <<"Email", email_id, "has been really archived.">>,
                         FALSE, TRUE, FALSE, g.labels, dr)
            ELSE Outcome("error", <<"str(e)">>, FALSE, TRUE, TRUE, g.labels, dr)

archive_email_by_id(email_id, gw, lbls, dr) ==
    IF ~Truthy(email_id)
    THEN Outcome("error", <<"Email ID not provided for archiving.">>, FALSE, FALSE, FALSE, lbls, dr)
    ELSE LET g == GatewayModify(lbls, email_id, {}, {"INBOX"}, gw)
         IN IF g.ok
            THEN Outcome("success", <<"Email", email_id, "has been really archived.">>,
                         FALSE, TRUE, FALSE, g.labels, dr)
            ELSE Outcome("error", <<"str(e)">>, FALSE, TRUE, TRUE, g.labels, dr)

\* delete_email_by_id without the check of its argument
delete_email_by_id_unguarded(email_id, gw, lbls, dr) ==
    LET g == GatewayModify(lbls, email_id, {"TRASH"}, {}, gw)
    IN IF g.ok
       THEN Outcome("success", <<"Email", email_id, "moved to trash.">>,
                    FALSE, TRUE, FALSE, g.labels, dr)
       ELSE Outcome("error", <<"str(e)">>, FALSE, TRUE, TRUE, g.labels, dr)

\* delete_email_by_id erasing the message instead of labelling it
delete_email_by_id_erase(email_id, gw, lbls, dr) ==
    IF ~Truthy(email_id)
    THEN Outcome("error", <<"Email ID not provided for deleting.">>, FALSE, FALSE, FALSE, lbls, dr)
    ELSE LET g == GatewayErase(lbls, email_id, gw)
         IN IF g.ok
            THEN Outcome("success", <<"Email", email_id, "moved to trash.">>,
                         FALSE, TRUE, FALSE, g.labels, dr)
            ELSE Outcome("error", <<"str(e)">>, FALSE, TRUE, TRUE, g.labels, dr)

delete_email_by_id(email_id, gw, lbls, dr) ==
    IF ~Truthy(email_id)
    THEN Outcome("error", <<"Email ID not provided for deleting.">>, FALSE, FALSE, FALSE, lbls, dr)
    ELSE LET g == GatewayModify(lbls, email_id, {"TRASH"}, {}, gw)
         IN IF g.ok
            THEN Outcome("success", <<"Email", email_id, "moved to trash.">>,
                         FALSE, TRUE, FALSE, g.labels, dr)
            ELSE Outcome("error", <<"str(e)">>, FALSE, TRUE, TRUE, g.labels, dr)

create_reminder(task, date, lbls, dr) ==
    Outcome("success", <<"Reminder set:", task, "on", date>>, FALSE, FALSE, FALSE, lbls, dr)

REAL_TOOLS == {"draft_email", "archive_email_by_id", "delete_email_by_id", "create_reminder"}


\* The runner dispatches a tool request of the agent to the function of that name
ExecTool(tool, email_id, body, gw, lbls, dr) ==
    CASE tool = "draft_email" -> draft_email("a@x.com", "Re: Hello", body, gw, lbls, dr)
      [] tool = "archive_email_by_id" -> archive_email_by_id(email_id, gw, lbls, dr)
      [] tool = "delete_email_by_id" -> delete_email_by_id(email_id, gw, lbls, dr)
      [] tool = "create_reminder" -> create_reminder("call back", "Friday", lbls, dr)

(* --------------------------- agent instruction ------------------------- *)
Classifications == {"URGENT", "FYI", "FOLLOW_UP", "JUNK"}
\* ORCHESTRATOR_INSTRUCTION, step 2: the tools named for each classification
Permitted ==
    [c \in Classifications |->
        CASE c = "JUNK" -> {"delete_email_by_id"}
          [] c = "FYI" -> {"archive_email_by_id"}
          [] c = "URGENT" -> {"draft_email"}
          [] c = "FOLLOW_UP" -> {"create_reminder", "draft_email"}]

(* ------------------------------- state --------------------------------- *)
VARIABLES
    labels,                 \* mailbox: message id -> set of label ids
    drafts,                 \* number of drafts in the account
    last,                   \* the latest direct tool call and its outcome
    before,                 \* labels as they were before that call
    prev,                   \* the tool call before the latest one
    emails,                 \* st.session_state.emails
    selected_email_index,   \* st.session_state.selected_email_index
    pc,                     \* "idle", or "engine" while run_debug is awaited
    classification,         \* the agent's classification of the prompt
    full_prompt,            \* the prompt handed to the runner
    response_events,        \* events produced by the runner for this press
    action_taken,           \* handler flag
    first_agent_dialogue,   \* handler local: the extracted report text
    status_label,           \* label last given to the st.status box
    report_display,         \* what is shown under "Agent Final Report"
    engine_result,          \* "events", "raises" or "returns None" once run_debug ended
    cycle                   \* how the latest press of the process button ended

toolVars == <<labels, drafts, last, before, prev>>
uiVars == <<emails, selected_email_index, pc, classification, full_prompt,
            response_events, action_taken, first_agent_dialogue, status_label,
            report_display, engine_result, cycle>>
vars == <<labels, drafts, last, before, prev, emails, selected_email_index, pc,
          classification, full_prompt, response_events, action_taken,
          first_agent_dialogue, status_label, report_display, engine_result, cycle>>

NoCall == [tool |-> "none", email_id |-> "", body |-> "", status |-> "none",
           message |-> <<>>, raised |-> FALSE, gatewayCalled |-> FALSE,
           gatewayFailed |-> FALSE]
NoPrev == [tool |-> "none", email_id |-> "", status |-> "none", raised |-> FALSE]
NoPrompt == [subject |-> "", sender |-> "", id |-> NoneVal]
NoDisplay == [kind |-> "none", text |-> <<>>]
FallbackText == <<"Look at the terminal for the output">>

InitUI ==
    /\ emails = <<>>
    /\ selected_email_index = 0
    /\ pc = "idle"
    /\ classification = "none"
    /\ full_prompt = NoPrompt
    /\ response_events = <<>>
    /\ action_taken = FALSE
    /\ first_agent_dialogue = <<>>
    /\ status_label = ""
    /\ report_display = NoDisplay
    /\ engine_result = "none"
    /\ cycle = "none"

InitCalls ==
    /\ drafts = 0
    /\ last = NoCall
    /\ before = labels
    /\ prev = NoPrev

(* ------------------------ direct calls of the tools -------------------- *)
\* Record one call of a tool made with the given arguments
Invoke(tool, email_id, body, o) ==
    /\ labels' = o.labels
    /\ drafts' = o.drafts
    /\ before' = labels
    /\ prev' = [tool |-> last.tool, email_id |-> last.email_id, status |-> last.status,
                raised |-> last.raised]
    /\ last' = [tool |-> tool, email_id |-> email_id, body |-> body,
                status |-> o.status, message |-> o.message, raised |-> o.raised,
                gatewayCalled |-> o.gatewayCalled, gatewayFailed |-> o.gatewayFailed]
    /\ UNCHANGED uiVars

DraftEmail ==
    /\ drafts < MaxDrafts
    /\ \E body \in BodyArgs, gw \in {"ok", "fail"} :
          Invoke("draft_email", "", body,
                 draft_email("a@x.com", "Re: Hello", body, gw, labels, drafts))

ArchiveEmailById ==
    \E email_id \in EmailIdArgs, gw \in {"ok", "fail"} :
        Invoke("archive_email_by_id", email_id, "",
               archive_email_by_id(email_id, gw, labels, drafts))

DeleteEmailById ==
    \E email_id \in EmailIdArgs, gw \in {"ok", "fail"} :
        Invoke("delete_email_by_id", email_id, "",
               delete_email_by_id(email_id, gw, labels, drafts))

CreateReminder ==
    Invoke("create_reminder", "", "", create_reminder("call back", "Friday", labels, drafts))

InitTools ==
    /\ labels \in [MsgIds -> SUBSET LabelIds]
    /\ InitCalls
    /\ InitUI

NextTools == DraftEmail \/ ArchiveEmailById \/ DeleteEmailById \/ CreateReminder

SpecTools == InitTools /\ [][NextTools]_vars


(* ------------------------- the Streamlit session ----------------------- *)
\* The email shown in the main area (lines 234-241): the list entry at the
\* selected index, whose id becomes CURRENT_EMAIL_ID
HasCurrent == emails # <<>> /\ Len(emails) > selected_email_index
current_email_data == emails[selected_email_index + 1]
CURRENT_EMAIL_ID == IF HasCurrent THEN current_email_data.id ELSE NoneVal

\* A script run that does not press the process button shows no report
ClearCycle ==
    /\ classification' = "none"
    /\ full_prompt' = NoPrompt
    /\ response_events' = <<>>
    /\ action_taken' = FALSE
    /\ first_agent_dialogue' = <<>>
    /\ status_label' = ""
    /\ report_display' = NoDisplay
    /\ engine_result' = "none"
    /\ cycle' = "none"

\* Refresh that keeps the previous selection
Refresh_keeps_selection ==
    /\ pc = "idle"
    /\ \E gw \in {"ok", "fail"} : emails' = fetch_inbox(labels, gw)
    /\ selected_email_index' = selected_email_index
    /\ ClearCycle
    /\ UNCHANGED <<pc, toolVars>>

\* Sidebar button "Refresh Inbox (Unread)"
Refresh ==
    /\ pc = "idle"
    /\ \E gw \in {"ok", "fail"} : emails' = fetch_inbox(labels, gw)
    /\ selected_email_index' = 0
    /\ ClearCycle
    /\ UNCHANGED <<pc, toolVars>>

\* The user picks option i of the radio; email_options.index(selected_option)
\* is i because every option starts with its own number
Select ==
    /\ pc = "idle"
    /\ emails # <<>>
    /\ \E i \in 0..(Len(emails) - 1) : selected_email_index' = i
    /\ ClearCycle
    /\ UNCHANGED <<pc, emails, toolVars>>

\* Button "Process with AI Agent": the prompt is built and run_debug awaited;
\* the agent settles on a classification of the email
PressProcess ==
    /\ pc = "idle"
    /\ HasCurrent
    /\ full_prompt' = [subject |-> current_email_data.subject,
                       sender |-> current_email_data.sender,
                       id |-> CURRENT_EMAIL_ID]
    /\ \E c \in Classifications : classification' = c
    /\ response_events' = <<>>
    /\ action_taken' = FALSE
    /\ first_agent_dialogue' = <<>>
    /\ status_label' = "Agent is working on your real inbox..."
    /\ report_display' = NoDisplay
    /\ engine_result' = "none"
    /\ cycle' = "running"
    /\ pc' = "engine"
    /\ UNCHANGED <<emails, selected_email_index, toolVars>>

(* ------------------------------ the engine ------------------------------ *)
Event(calls, has, text) == [tool_calls |-> calls, has_message |-> has, text |-> text]
EngineTexts == SeqsUpTo(Chars, 1)

\* The agent requests one of its tools; the runner executes it and records
\* the request as an event
EngineCallTool ==
    /\ pc = "engine"
    /\ Len(response_events) < MaxEvents
    /\ \E tool \in REAL_TOOLS, email_id \in {full_prompt.id, ""}, gw \in {"ok", "fail"} :
          /\ tool = "draft_email" => drafts < MaxDrafts
          /\ LET o == ExecTool(tool, email_id, "reply text", gw, labels, drafts)
             IN /\ labels' = o.labels
                /\ drafts' = o.drafts
          /\ response_events' = Append(response_events, Event(<<tool>>, FALSE, <<>>))
    /\ UNCHANGED <<last, before, prev, emails, selected_email_index, pc, classification,
                   full_prompt, action_taken, first_agent_dialogue, status_label,
                   report_display, engine_result, cycle>>

\* The agent emits a textual message
EngineEmitText ==
    /\ pc = "engine"
    /\ Len(response_events) < MaxEvents
    /\ \E t \in EngineTexts : response_events' = Append(response_events, Event(<<>>, TRUE, t))
    /\ UNCHANGED <<toolVars, emails, selected_email_index, pc, classification,
                   full_prompt, action_taken, first_agent_dialogue, status_label,
                   report_display, engine_result, cycle>>

(* ------------------- the handler after run_debug returns ---------------- *)
\* lines 285-290: any event with a non-empty tool_calls sets the flag
ActionTaken(events) == \E i \in 1..Len(events) : events[i].tool_calls # <<>>

\* lines 292-299: the stripped texts of the events that carry a non-blank text
RECURSIVE PotentialAgentMessages(_)
PotentialAgentMessages(events) ==
    IF events = <<>> THEN <<>>
    ELSE LET event == Head(events)
             rest == PotentialAgentMessages(Tail(events))
         IN IF event.has_message /\ Strip(event.text) # <<>>
            THEN <<Strip(event.text)>> \o rest
            ELSE rest

\* the second loop without its break: the last candidate wins
RECURSIVE FirstAgentDialogue_no_break(_)
FirstAgentDialogue_no_break(msgs) ==
    IF msgs = <<>> THEN <<>>
    ELSE LET msg == Head(msgs)
             later == FirstAgentDialogue_no_break(Tail(msgs))
         IN IF later # <<>> THEN later
            ELSE IF ~StartsWith(msg, "tool_code:") /\ ~StartsWith(msg, "print(") /\ Strip(msg) # <<>>
                 THEN msg
                 ELSE <<>>

\* lines 303-309: the first candidate that is not tool syntax, "" when none
RECURSIVE FirstAgentDialogue(_)
FirstAgentDialogue(msgs) ==
    IF msgs = <<>> THEN <<>>
    ELSE LET msg == Head(msgs)
         IN IF ~StartsWith(msg, "tool_code:") /\ ~StartsWith(msg, "print(") /\ Strip(msg) # <<>>
            THEN msg
            ELSE FirstAgentDialogue(Tail(msgs))

\* lines 324-328
FinalReportDisplay(dialogue) ==
    IF dialogue # <<>> THEN [kind |-> "success", text |-> dialogue]
    ELSE [kind |-> "info", text |-> FallbackText]

\* lines 279-328, run_debug having returned response_events.  With a tool
\* call among the events the inbox is re-fetched, the selection reset and the
\* script rerun: st.experimental_rerun() leaves the handler, and the rerun
\* renders the page without the pressed button, hence without the report.
EngineReturn ==
    /\ pc = "engine"
    /\ action_taken' = ActionTaken(response_events)
    /\ first_agent_dialogue' = FirstAgentDialogue(PotentialAgentMessages(response_events))
    /\ IF ActionTaken(response_events)
       THEN /\ status_label' = "Real Actions Executed!"
            /\ \E gw \in {"ok", "fail"} : emails' = fetch_inbox(labels, gw)
            /\ selected_email_index' = 0
            /\ report_display' = NoDisplay
            /\ cycle' = "rerun"
       ELSE /\ status_label' = "Finished analyzing. No actions taken."
            /\ report_display' = FinalReportDisplay(first_agent_dialogue')
            /\ cycle' = "completed"
            /\ UNCHANGED <<emails, selected_email_index>>
    /\ engine_result' = "events"
    /\ pc' = "idle"
    /\ UNCHANGED <<toolVars, classification, full_prompt, response_events>>

\* line 277: run_debug raises, or returns None and line 285 raises TypeError.
\* Nothing catches either, so the exception leaves the script.
EngineFail ==
    /\ pc = "engine"
    /\ \E failure \in {"raises", "returns None"} : engine_result' = failure
    /\ cycle' = "uncaught exception"
    /\ pc' = "idle"
    /\ UNCHANGED <<toolVars, emails, selected_email_index, classification, full_prompt,
                   response_events, action_taken, first_agent_dialogue, status_label,
                   report_display>>

Init ==
    /\ labels = [m \in MsgIds |-> {"INBOX", "UNREAD"}]
    /\ InitCalls
    /\ InitUI

Next ==
    \/ Refresh
    \/ Select
    \/ PressProcess
    \/ EngineCallTool
    \/ EngineEmitText
    \/ EngineReturn
    \/ EngineFail

Spec == Init /\ [][Next]_vars

(* --------- the handler applied to every bounded event sequence ---------- *)
ToolCallLists == {<<>>, <<"archive_email_by_id">>}
\* events without a message, textual events, and tool-call events that also
\* carry a short text
Events == {Event(calls, FALSE, <<>>) : calls \in ToolCallLists}
          \cup {Event(<<>>, TRUE, t) : t \in Texts}
          \cup {Event(calls, TRUE, t) : calls \in ToolCallLists \ {<<>>}, t \in EngineTexts}

InitReport ==
    /\ labels = [m \in MsgIds |-> {"INBOX", "UNREAD"}]
    /\ InitCalls
    /\ emails = fetch_inbox(labels, "ok")
    /\ selected_email_index = 0
    /\ pc = "engine"
    /\ classification = "FYI"
    /\ full_prompt = [subject |-> Subject["m1"], sender |-> Sender["m1"], id |-> "m1"]
    /\ \E n \in 0..MaxEvents : response_events \in [1..n -> Events]
    /\ action_taken = FALSE
    /\ first_agent_dialogue = <<>>
    /\ status_label = "Agent is working on your real inbox..."
    /\ report_display = NoDisplay
    /\ engine_result = "none"
    /\ cycle = "running"

NextReport == EngineReturn

SpecReport == InitReport /\ [][NextReport]_vars


(* ============================== properties ============================== *)
Called == last.tool # "none"
MutatingTools == {"archive_email_by_id", "delete_email_by_id"}

\* C1: every tool call returns a result whose status is 'success' or 'error'
\* and raises nothing to its caller, whatever the arguments and the gateway
\* outcome; a failed gateway call gives status 'error'.
C1_ToolsReturnStatusNeverRaise ==
    Called =>
        /\ last.status \in {"success", "error"}
        /\ ~last.raised
        /\ last.gatewayFailed => last.status = "error"

C1_Witness ==
    /\ last.tool = "archive_email_by_id"
    /\ last.email_id \in MsgIds
    /\ last.gatewayFailed
    /\ last.status = "error"
    /\ prev.tool = "draft_email"
    /\ prev.status = "success"

\* C5: archive_email_by_id and delete_email_by_id called with an empty or None
\* email_id return status 'error' with the "not provided" message, do not call
\* the gateway and leave every label as it was.
NotProvidedMessage(tool) ==
    IF tool = "archive_email_by_id"
    THEN <<"Email ID not provided for archiving.">>
    ELSE <<"Email ID not provided for deleting.">>

C5_MissingIdRejectedLocally ==
    (last.tool \in MutatingTools /\ last.email_id \in {"", NoneVal}) =>
        /\ last.status = "error"
        /\ last.message = NotProvidedMessage(last.tool)
        /\ ~last.gatewayCalled
        /\ labels = before

C5_Witness ==
    /\ last.tool = "delete_email_by_id"
    /\ last.email_id = NoneVal
    /\ last.status = "error"
    /\ prev.tool = "archive_email_by_id"
    /\ prev.email_id = ""
    /\ prev.status = "error"

\* C6: no tool call removes a message; a successful archive of id only takes
\* INBOX off message id, a successful delete of id only puts TRASH on message
\* id, and every other call (draft, reminder, any failed call) changes no label.
LabelsAfter(call, lbls, m) ==
    IF call.status = "success" /\ call.email_id = m /\ call.tool = "archive_email_by_id"
    THEN lbls[m] \ {"INBOX"}
    ELSE IF call.status = "success" /\ call.email_id = m /\ call.tool = "delete_email_by_id"
    THEN lbls[m] \cup {"TRASH"}
    ELSE lbls[m]

C6_MutationsNonDestructive ==
    /\ MsgIds \subseteq DOMAIN labels
    /\ DOMAIN before \subseteq DOMAIN labels
    /\ \A m \in DOMAIN before : labels[m] = LabelsAfter(last, before, m)

C6_Witness ==
    /\ last.tool = "delete_email_by_id"
    /\ last.status = "success"
    /\ last.email_id = "m1"
    /\ "TRASH" \notin before["m1"]
    /\ labels["m1"] = before["m1"] \cup {"TRASH"}
    /\ labels["m2"] = before["m2"]
    /\ prev.tool = "archive_email_by_id"
    /\ prev.status = "success"
    /\ prev.email_id = "m2"
    /\ "INBOX" \notin labels["m2"]

\* C9: two archive calls in a row with the same id of an existing message:
\* neither raises and both return a result; the first having archived the
\* message, the mailbox after the second call is the mailbox after the first,
\* with INBOX absent from the message.
ArchivedTwice ==
    /\ prev.tool = "archive_email_by_id"
    /\ last.tool = "archive_email_by_id"
    /\ prev.email_id \in MsgIds
    /\ last.email_id = prev.email_id

C9_ArchiveIdempotent ==
    ArchivedTwice =>
        /\ ~prev.raised /\ ~last.raised
        /\ prev.status \in {"success", "error"}
        /\ last.status \in {"success", "error"}
        /\ prev.status = "success" =>
              /\ labels = before
              /\ "INBOX" \notin labels[last.email_id]

C9_Witness ==
    /\ ArchivedTwice
    /\ prev.status = "success"
    /\ last.status = "success"
    /\ last.gatewayCalled
    /\ "UNREAD" \in labels[last.email_id]

(* ------------------------------ the handler ----------------------------- *)
\* A textual event whose trimmed text is non-empty and is not tool syntax
Qualifies(event) ==
    /\ event.has_message
    /\ \E i \in 1..Len(event.text) :
          /\ event.text[i] # " "
          /\ \A j \in 1..(i - 1) : event.text[j] = " "
          /\ event.text[i] \notin {"tool_code:", "print("}
QualifyingAt(events) == {i \in 1..Len(events) : Qualifies(events[i])}
FirstQualifyingAt(events) ==
    CHOOSE i \in QualifyingAt(events) : \A j \in QualifyingAt(events) : i <= j
\* a text without its leading and trailing blanks
Trimmed(t) ==
    LET solid == {i \in 1..Len(t) : t[i] # " "}
        lo == CHOOSE i \in solid : \A j \in solid : i <= j
        hi == CHOOSE i \in solid : \A j \in solid : j <= i
    IN IF solid = {} THEN <<>> ELSE SubSeq(t, lo, hi)
Handled == pc = "idle" /\ engine_result = "events"

C2_ReportAfterAllToolCalls ==
    (Handled /\ first_agent_dialogue # <<>>) =>
        \A j \in 1..Len(response_events) :
            j > FirstQualifyingAt(response_events) => response_events[j].tool_calls = <<>>

\* C3 (as claimed): every press for which the engine returned its events ends
\* with the final report or the fallback message on display.
C3_ReportDisplayedAfterEveryPress ==
    Handled => report_display.kind \in {"success", "info"}

\* C7 (as claimed): a failed engine call ends the cycle with an explicit
\* "could not complete analysis" report, no action recorded, and no exception
\* leaving the handler.
EngineFailed == pc = "idle" /\ engine_result \in {"raises", "returns None"}
C7_EngineFailureReported ==
    EngineFailed =>
        /\ report_display.kind # "none"
        /\ cycle # "uncaught exception"
        /\ ~action_taken
        /\ status_label # "Real Actions Executed!"

\* C8 (as claimed): the tool calls executed in a cycle all belong to the
\* permitted set of the cycle's classification.
C8_ToolsWithinPolicy ==
    classification \in Classifications =>
        \A i \in 1..Len(response_events) :
            \A k \in 1..Len(response_events[i].tool_calls) :
                response_events[i].tool_calls[k] \in Permitted[classification]

\* C10: whenever the email list is non-empty the selected index is within its
\* bounds, it is 0 right after the post-action re-fetch, and the prompt of a
\* running cycle carries the id, subject and sender of the list entry at the
\* selected index.
C10_SelectionConsistent ==
    /\ emails # <<>> => selected_email_index \in 0..(Len(emails) - 1)
    /\ cycle = "rerun" => selected_email_index = 0
    /\ pc = "engine" =>
          /\ HasCurrent
          /\ full_prompt.id = emails[selected_email_index + 1].id
          /\ full_prompt.subject = emails[selected_email_index + 1].subject
          /\ full_prompt.sender = emails[selected_email_index + 1].sender

C10_Witness ==
    /\ pc = "engine"
    /\ Len(emails) = 2
    /\ selected_email_index = 1
    /\ full_prompt.id = "m2"
    /\ full_prompt.sender = "b@y.org"

====
